---------------------------- MODULE Spec2Model ----------------------------
(***************************************************************************)
(* Model of web/main.jsx: the drop / select controller of the flame-graph  *)
(* front end.  The state is the pair of decoration classes on the          *)
(* drop-signal element, the process() invocations in flight, the object    *)
(* URLs issued by the browser, the page location and the file chooser.     *)
(* Every DOM event handler is one action; every continuation of the async  *)
(* function process() after an await is one action.                        *)
(***************************************************************************)
EXTENDS Integers, Sequences, FiniteSets, TLC

(* ------------------------------ bounds -------------------------------- *)

\* Largest number of items carried by one drag payload.
MaxItems == 2

\* Largest number of process() invocations in one behaviour.
MaxProc == 2

(* --------------------------- host vocabulary --------------------------- *)

\* styles.dropValid / styles.dropInvalid: the two class names the code toggles.
dropValid == "dropValid"
dropInvalid == "dropInvalid"

\* The WebAssembly files the user can drag or choose: a well-formed binary
\* and a malformed one.
Files == {"ok.wasm", "bad.wasm"}

NoFile == "nofile"
undefined == "undefined"

\* The dragged items the host can offer: a string item declared as
\* application/wasm, a text file, and the two WebAssembly files.
Items ==
    {[kind |-> "string", type |-> "application/wasm", file |-> NoFile],
     [kind |-> "file", type |-> "text/plain", file |-> "notes.txt"]}
      \cup {[kind |-> "file", type |-> "application/wasm", file |-> f] : f \in Files}

\* ev.dataTransfer.items of a drop, for every payload of at most MaxItems
\* items.
Payloads == UNION {[1..n -> Items] : n \in 0..MaxItems}

\* ev.dataTransfer.items of a dragover: the drag data store is in protected
\* mode, so kind and type are readable and the files are not.
Protected ==
    UNION {[1..n -> {[i EXCEPT !.file = NoFile] : i \in Items}] : n \in 0..MaxItems}

\* JavaScript null, as returned by isValidWasmDrop.
null == [null |-> TRUE]

\* location.href of the page the controller is loaded on; object URLs are
\* numbered from 1 in the order the browser issues them.
StartPage == 0

NoUrl == -1
NoBuf == [bytes |-> "none"]

VARIABLES
    classes,    \* dropSignal.classList restricted to {dropValid, dropInvalid}
    procs,      \* the process() invocations, in invocation order
    urls,       \* the browser's object-URL store: urls[u] is the blob behind URL u
    location,   \* location.href
    chooser,    \* "open" while a file chooser created by onclick is showing
    last        \* the handler or continuation that ran last, with its input

vars == <<classes, procs, urls, location, chooser, last>>

(* ------------------------------ helpers -------------------------------- *)

\* ev.dataTransfer.files: the files of the file items, in item order.
RECURSIVE filesOf(_)
filesOf(dt) ==
    IF Len(dt) = 0 THEN <<>>
    ELSE LET rest == filesOf(Tail(dt))
         IN  IF Head(dt).kind = "file" THEN <<Head(dt).file>> \o rest ELSE rest

\* list[0] of a JavaScript array-like: undefined when the list is empty.
first(list) == IF Len(list) = 0 THEN undefined ELSE list[1]

\* isValidWasmDrop without the check of the declared type.
isValidWasmDrop_anyType(dt) ==
    IF Len(dt) # 1 THEN null
    ELSE LET item == dt[1]
         IN  IF item.kind # "file" THEN null ELSE item

\* isValidWasmDrop without the check of the item's kind.
isValidWasmDrop_anyKind(dt) ==
    IF Len(dt) # 1 THEN null
    ELSE LET item == dt[1]
         IN  IF item.type # "application/wasm" THEN null ELSE item

isValidWasmDrop(dt) ==
    IF Len(dt) # 1 THEN null
    ELSE LET item == dt[1]
         IN  IF item.kind # "file" THEN null
             ELSE IF item.type # "application/wasm" THEN null
             ELSE item

signalDropValid(cl) == cl \cup {dropValid}

signalDropInvalid(cl) == cl \cup {dropInvalid}

\* resetDropSignal removing only the valid decoration.
resetDropSignal_validOnly(cl) == cl \ {dropValid}

resetDropSignal(cl) == cl \ {dropValid, dropInvalid}

\* new Response(file).arrayBuffer(): the bytes of the file.
arrayBuffer(file) == [bytes |-> file]

\* The rendering collaborator: resolves with the SVG of a well-formed binary
\* and rejects anything else.
renderFlameGraph(buf) ==
    IF buf.bytes = "ok.wasm"
      THEN [svg |-> <<"flamegraph of", buf.bytes>>]
      ELSE [rejected |-> TRUE]

\* new File([svg], "flamegraph.svg", {type: "image/svg+xml"})
svgFile(svg) == [name |-> "flamegraph.svg", type |-> "image/svg+xml", content |-> svg]

\* URL.createObjectURL handing out the newest URL again instead of a fresh one.
createObjectURL_reuse(store, blob) ==
    IF Len(store) = 0 THEN Append(store, blob)
    ELSE [store EXCEPT ![Len(store)] = blob]

\* URL.createObjectURL revoking the URLs issued before the new one.
createObjectURL_revokePrevious(store, blob) ==
    [u \in 1..(Len(store) + 1) |->
        IF u = Len(store) + 1 THEN blob ELSE [revoked |-> TRUE]]

\* URL.createObjectURL: the store with a fresh URL for the blob added.
createObjectURL(store, blob) == Append(store, blob)

\* process starting the pipeline twice.
process_twice(ps, file) ==
    Append(Append(ps, [file |-> file, pc |-> "read", buf |-> NoBuf, url |-> NoUrl]),
           [file |-> file, pc |-> "read", buf |-> NoBuf, url |-> NoUrl])

\* process(file) up to its first await: a new invocation waiting for the read.
process(ps, file) ==
    Append(ps, [file |-> file, pc |-> "read", buf |-> NoBuf, url |-> NoUrl])

\* dt.items[0] as isValidWasmDrop reads it: line 39 is reached only with
\* exactly one item.
item0(dt) == IF Len(dt) # 1 THEN null ELSE dt[1]

\* ev.dataTransfer.files[0] as ondrop reads it: line 59 is reached only when
\* isValidWasmDrop returned an item.
file0(dt, res) == IF res = null THEN undefined ELSE first(filesOf(dt))

\* The record of the handler or continuation that runs in the current state:
\* its name, what it read of its event (dt.items.length, dt.items[0] and
\* files[0], each where the code reads it), the value isValidWasmDrop
\* returned to it, the pipeline it continued, and the state it started from.
\* The two handlers that take a drag payload record the payload and not the
\* decoration they started from (cl).
Ran(op, len, item, file, res, p) ==
    [op |-> op, len |-> len, item |-> item, file |-> file, res |-> res,
     p |-> p, n |-> Len(procs), loc |-> location, nurl |-> Len(urls),
     cl |-> IF op \in {"dragover", "drop"} THEN {} ELSE classes,
     calls |-> <<>>]

Step(op, p) == Ran(op, 0, null, undefined, null, p)

\* The run record with the calls the handler made, in program order.
Called(run, calls) == [run EXCEPT !.calls = calls]

(* ------------------------------ actions -------------------------------- *)

Init ==
    /\ classes = {}
    /\ procs = <<>>
    /\ urls = <<>>
    /\ location = StartPage
    /\ chooser = "closed"
    /\ last = Step("load", 0)

\* ondragleave answering only while no pipeline is in flight.
ondragleave_whenIdle ==
    /\ \A p \in DOMAIN procs : procs[p].pc \in {"done", "failed"}
    /\ classes' = resetDropSignal(classes)
    /\ last' = Called(Step("dragleave", 0), <<"resetDropSignal">>)
    /\ UNCHANGED <<procs, urls, location, chooser>>

\* dropZone.ondragleave
ondragleave ==
    /\ classes' = resetDropSignal(classes)
    /\ last' = Called(Step("dragleave", 0), <<"resetDropSignal">>)
    /\ UNCHANGED <<procs, urls, location, chooser>>

\* ondragover validating first and leaving an invalid drag to the browser.
ondragover_validateFirst(dt) ==
    /\ classes' = IF isValidWasmDrop(dt) = null
                    THEN signalDropInvalid(classes)
                    ELSE signalDropValid(classes)
    /\ last' = Called(Ran("dragover", Len(dt), item0(dt), undefined,
                          isValidWasmDrop(dt), 0),
                      IF isValidWasmDrop(dt) = null
                        THEN <<"isValidWasmDrop", "signalDropInvalid">>
                        ELSE <<"isValidWasmDrop", "preventDefault",
                               "signalDropValid">>)
    /\ UNCHANGED <<procs, urls, location, chooser>>

\* dropZone.ondragover
ondragover(dt) ==
    /\ classes' = IF isValidWasmDrop(dt) = null
                    THEN signalDropInvalid(classes)
                    ELSE signalDropValid(classes)
    /\ last' = Called(Ran("dragover", Len(dt), item0(dt), undefined,
                          isValidWasmDrop(dt), 0),
                      IF isValidWasmDrop(dt) = null
                        THEN <<"preventDefault", "isValidWasmDrop",
                               "signalDropInvalid">>
                        ELSE <<"preventDefault", "isValidWasmDrop",
                               "signalDropValid">>)
    /\ UNCHANGED <<procs, urls, location, chooser>>

\* ondrop starting process and leaving the reset of the decoration for later.
ondrop_deferredReset(dt) ==
    /\ IF isValidWasmDrop(dt) = null
         THEN /\ procs' = procs
              /\ classes' = resetDropSignal(classes)
         ELSE /\ Len(procs) < MaxProc
              /\ procs' = process(procs, first(filesOf(dt)))
              /\ classes' = classes
    /\ last' = Called(Ran("drop", Len(dt), item0(dt),
                          file0(dt, isValidWasmDrop(dt)), isValidWasmDrop(dt), 0),
                      IF isValidWasmDrop(dt) = null
                        THEN <<"preventDefault", "isValidWasmDrop",
                               "resetDropSignal">>
                        ELSE <<"preventDefault", "isValidWasmDrop", "process">>)
    /\ UNCHANGED <<urls, location, chooser>>

\* dropZone.ondrop
ondrop(dt) ==
    /\ classes' = resetDropSignal(classes)
    /\ IF isValidWasmDrop(dt) = null
         THEN procs' = procs
         ELSE /\ Len(procs) < MaxProc
              /\ procs' = process(procs, first(filesOf(dt)))
    /\ last' = Called(Ran("drop", Len(dt), item0(dt),
                          file0(dt, isValidWasmDrop(dt)), isValidWasmDrop(dt), 0),
                      IF isValidWasmDrop(dt) = null
                        THEN <<"preventDefault", "resetDropSignal",
                               "isValidWasmDrop">>
                        ELSE <<"preventDefault", "resetDropSignal",
                               "isValidWasmDrop", "process">>)
    /\ UNCHANGED <<urls, location, chooser>>

\* onclick invoking process itself, before any file is chosen.
onclick_processes ==
    /\ chooser = "closed"
    /\ Len(procs) < MaxProc
    /\ chooser' = "open"
    /\ procs' = process(procs, NoFile)
    /\ last' = Step("click", 0)
    /\ UNCHANGED <<classes, urls, location>>

\* fileSelect.onclick: creates the input and opens the chooser.
onclick ==
    /\ chooser = "closed"
    /\ Len(procs) < MaxProc
    /\ chooser' = "open"
    /\ last' = Step("click", 0)
    /\ UNCHANGED <<classes, procs, urls, location>>

\* f.onchange: the user chose the files fs in the chooser.
onchange(fs) ==
    /\ chooser = "open"
    /\ Len(procs) < MaxProc
    /\ chooser' = "closed"
    /\ procs' = process(procs, first(fs))
    /\ last' = Called(Ran("change", Len(fs), null, first(fs), null, 0),
                      <<"process">>)
    /\ UNCHANGED <<classes, urls, location>>

\* Dismissing the chooser dispatching a change event with an empty file list.
cancel_change ==
    /\ chooser = "open"
    /\ chooser' = "closed"
    /\ procs' = process(procs, first(<<>>))
    /\ last' = Step("cancel", 0)
    /\ UNCHANGED <<classes, urls, location>>

\* The user dismisses the chooser: no change event is dispatched.
cancel ==
    /\ chooser = "open"
    /\ chooser' = "closed"
    /\ last' = Step("cancel", 0)
    /\ UNCHANGED <<classes, procs, urls, location>>

\* The read continuing only when no earlier invocation is still in flight.
readResolved_exclusive(p) ==
    /\ p \in DOMAIN procs
    /\ procs[p].pc = "read"
    /\ \A q \in 1..(p - 1) : procs[q].pc \in {"done", "failed"}
    /\ procs' = [procs EXCEPT ![p].buf = arrayBuffer(procs[p].file),
                              ![p].pc = "render"]
    /\ last' = Step("read", p)
    /\ UNCHANGED <<classes, urls, location, chooser>>

\* process, line 13 resolved: buf is set and renderFlameGraph(buf) is awaited.
readResolved(p) ==
    /\ p \in DOMAIN procs
    /\ procs[p].pc = "read"
    /\ procs' = [procs EXCEPT ![p].buf = arrayBuffer(procs[p].file),
                              ![p].pc = "render"]
    /\ last' = Step("read", p)
    /\ UNCHANGED <<classes, urls, location, chooser>>

\* process, line 13 rejected: the invocation ends with an uncaught rejection.
readRejected(p) ==
    /\ p \in DOMAIN procs
    /\ procs[p].pc = "read"
    /\ procs' = [procs EXCEPT ![p].pc = "failed"]
    /\ last' = Step("readfail", p)
    /\ UNCHANGED <<classes, urls, location, chooser>>

\* The last step of process also clearing the decoration.
renderResolved_resets(p) ==
    /\ p \in DOMAIN procs
    /\ procs[p].pc = "render"
    /\ LET r == renderFlameGraph(procs[p].buf)
       IN  /\ r # [rejected |-> TRUE]
           /\ urls' = createObjectURL(urls, svgFile(r.svg))
           /\ LET url == Len(urls')
              IN  /\ location' = url
                  /\ procs' = [procs EXCEPT ![p].url = url, ![p].pc = "done"]
    /\ classes' = resetDropSignal(classes)
    /\ last' = Step("navigate", p)
    /\ UNCHANGED chooser

\* process, lines 14-17: the render resolved; wrap, create the URL, navigate.
renderResolved(p) ==
    /\ p \in DOMAIN procs
    /\ procs[p].pc = "render"
    /\ LET r == renderFlameGraph(procs[p].buf)
       IN  /\ r # [rejected |-> TRUE]
           /\ urls' = createObjectURL(urls, svgFile(r.svg))
           /\ LET url == Len(urls')
              IN  /\ location' = url
                  /\ procs' = [procs EXCEPT ![p].url = url, ![p].pc = "done"]
    /\ last' = Step("navigate", p)
    /\ UNCHANGED <<classes, chooser>>

\* The render failure caught and answered by resetting the decoration.
renderRejected_reset(p) ==
    /\ p \in DOMAIN procs
    /\ procs[p].pc = "render"
    /\ renderFlameGraph(procs[p].buf) = [rejected |-> TRUE]
    /\ procs' = [procs EXCEPT ![p].pc = "failed"]
    /\ classes' = resetDropSignal(classes)
    /\ last' = Step("renderfail", p)
    /\ UNCHANGED <<urls, location, chooser>>

\* process, line 14 rejected: the invocation ends with an uncaught rejection.
renderRejected(p) ==
    /\ p \in DOMAIN procs
    /\ procs[p].pc = "render"
    /\ renderFlameGraph(procs[p].buf) = [rejected |-> TRUE]
    /\ procs' = [procs EXCEPT ![p].pc = "failed"]
    /\ last' = Step("renderfail", p)
    /\ UNCHANGED <<classes, urls, location, chooser>>

Next ==
    \/ ondragleave
    \/ \E dt \in Protected : ondragover(dt)
    \/ \E dt \in Payloads : ondrop(dt)
    \/ onclick
    \/ \E f \in Files : onchange(<<f>>)
    \/ cancel
    \/ \E p \in 1..MaxProc : readResolved(p)
    \/ \E p \in 1..MaxProc : readRejected(p)
    \/ \E p \in 1..MaxProc : renderResolved(p)
    \/ \E p \in 1..MaxProc : renderRejected(p)

Spec == Init /\ [][Next]_vars

\* One step of invocation p: the continuation after the promise it awaits.
continuation(p) ==
    \/ readResolved(p)
    \/ readRejected(p)
    \/ renderResolved(p)
    \/ renderRejected(p)

\* The event loop runs a continuation of process() once the promise it
\* awaits has settled, and the host and the collaborator settle every promise.
Fairness == \A p \in 1..MaxProc : WF_vars(continuation(p))

LiveSpec == Spec /\ Fairness

(* ------------------------- reading the state --------------------------- *)

\* The decoration the drop-signal element shows: the DropState of the design,
\* or "Both" when the valid and the invalid class are applied together.
DropState ==
    IF classes = {} THEN "Neutral"
    ELSE IF classes = {dropValid} THEN "Valid"
    ELSE IF classes = {dropInvalid} THEN "Invalid"
    ELSE "Both"

\* The validation predicate as the design states it, on what the last drag
\* handler read of its event: exactly one item, a file, declared as
\* application/wasm.
Satisfies(r) ==
    /\ r.len = 1
    /\ r.item.kind = "file"
    /\ r.item.type = "application/wasm"

(* ------------------------------- claims -------------------------------- *)

\* C1: a drop whose payload satisfies the validation predicate leaves the
\* decoration Neutral and invokes process exactly once, with the file of the
\* dropped item, whatever the decoration was before.
C1_ValidDropStartsOnePipeline ==
    (last.op = "drop" /\ Satisfies(last)) =>
        /\ DropState = "Neutral"
        /\ Len(procs) = last.n + 1
        /\ procs[Len(procs)].file = last.item.file
        /\ procs[Len(procs)].pc = "read"

C1_Witness ==
    /\ last.op = "drop"
    /\ Satisfies(last)
    /\ Len(procs) = 2
    /\ procs[2].file = "bad.wasm"
    /\ procs[1].file = "ok.wasm"

\* C2: a drop whose payload fails the validation predicate leaves the
\* decoration Neutral, starts no pipeline, creates no object URL and leaves
\* the page location alone.
C2_InvalidDropDiscarded ==
    (last.op = "drop" /\ ~Satisfies(last)) =>
        /\ DropState = "Neutral"
        /\ Len(procs) = last.n
        /\ Len(urls) = last.nurl
        /\ location = last.loc

C2_Witness ==
    /\ last.op = "drop"
    /\ last.len = 1
    /\ last.item.kind = "file"
    /\ last.item.type = "text/plain"
    /\ Len(procs) = 0

\* C3: right after a drag-over the decoration is Valid if the payload
\* satisfies the validation predicate and Invalid otherwise.
C3_DragOverSetsValidOrInvalid ==
    last.op = "dragover" =>
        DropState = IF Satisfies(last) THEN "Valid" ELSE "Invalid"

\* C4: the decoration is always exactly one of Neutral, Valid, Invalid: the
\* valid and the invalid decoration are never applied together.
C4_DecorationIsOneOfThree ==
    DropState \in {"Neutral", "Valid", "Invalid"}

\* C5: a drag-leave resets the decoration to Neutral from every prior
\* decoration, and starts no pipeline.
C5_DragLeaveResets ==
    last.op = "dragleave" =>
        /\ DropState = "Neutral"
        /\ Len(procs) = last.n
        /\ Len(urls) = last.nurl
        /\ location = last.loc

C5_Witness ==
    /\ last.op = "dragleave"
    /\ last.cl = {dropValid, dropInvalid}
    /\ classes = {}

\* C6: isValidWasmDrop returns the sole item exactly when the payload has one
\* item, of kind file and type application/wasm, and null in every other case.
C6_PredicateResult ==
    last.op \in {"dragover", "drop"} =>
        last.res = IF Satisfies(last) THEN last.item ELSE null

C6_Witness ==
    /\ last.op = "dragover"
    /\ last.len = 1
    /\ last.res = last.item
    /\ last.res # null

\* The blob process() wraps the render of a file in: flamegraph.svg, of type
\* image/svg+xml, holding the SVG rendered from the bytes of the file.
Flamegraph(file) ==
    [name |-> "flamegraph.svg", type |-> "image/svg+xml",
     content |-> <<"flamegraph of", file>>]

\* The pipelines that have created their object URL.
Done == {p \in DOMAIN procs : procs[p].pc = "done"}

\* The state part of C8: a finished pipeline holds one object URL of its own,
\* wrapping its rendered SVG; a pipeline whose render has not resolved holds
\* none; every URL in the store was created by one finished pipeline; the
\* page is at the start page or at a created URL, and right after a pipeline
\* finishes the page is at the URL that pipeline has just created.
PipelineOrder ==
    /\ \A p \in Done :
          /\ procs[p].url \in 1..Len(urls)
          /\ urls[procs[p].url] = Flamegraph(procs[p].file)
          /\ \A q \in Done : procs[q].url = procs[p].url => q = p
    /\ \A p \in DOMAIN procs \ Done : procs[p].url = NoUrl
    /\ Len(urls) = Cardinality(Done)
    /\ location \in {StartPage} \cup {procs[p].url : p \in Done}
    /\ last.op = "navigate" =>
          /\ last.p \in Done
          /\ Len(urls) = last.nurl + 1
          /\ procs[last.p].url = Len(urls)
          /\ location = procs[last.p].url

\* C8: every process invocation whose read and render succeed eventually
\* creates exactly one object URL wrapping the rendered SVG and the page is
\* navigated to that URL; the URL is created only after the render resolved
\* and the navigation only after the URL was created.
C8_SuccessfulPipelineNavigates ==
    /\ []PipelineOrder
    /\ \A p \in 1..MaxProc :
          (/\ p \in DOMAIN procs
           /\ procs[p].pc = "render"
           /\ renderFlameGraph(procs[p].buf) # [rejected |-> TRUE])
             ~> (p \in Done /\ procs[p].url \in 1..Len(urls))

C8_Witness ==
    /\ last.op = "navigate"
    /\ last.p = 1
    /\ procs[1].pc = "done"
    /\ location = procs[1].url
    /\ urls[location] = Flamegraph("ok.wasm")

\* C9: two process invocations in flight together proceed independently:
\* neither waits for, removes or cancels the other, each one can take its next
\* step whatever the other is doing, and the page is at the URL of the
\* pipeline that navigated last.
C9_ConcurrentPipelinesLastWins ==
    /\ \A p \in DOMAIN procs :
          /\ procs[p].pc = "read" => ENABLED readResolved(p)
          /\ (procs[p].pc = "render"
                /\ renderFlameGraph(procs[p].buf) # [rejected |-> TRUE])
                => ENABLED renderResolved(p)
    /\ Len(procs) >= last.n
    /\ last.op = "navigate" => location = procs[last.p].url
    /\ Done # {} =>
          /\ location = Len(urls)
          /\ \A p \in Done : procs[p].url <= location

C9_Witness ==
    /\ Len(procs) = 2
    /\ procs[1].pc = "done"
    /\ procs[2].pc = "done"
    /\ procs[2].url = 1
    /\ procs[1].url = 2
    /\ location = procs[1].url

\* C10: when the chooser yields no file, nothing happens: process is not
\* invoked, no object URL is created, the page location and the decoration
\* are unchanged; when it yields one file, process is invoked exactly once
\* with that file.
C10_ChooserOutcome ==
    /\ last.op = "cancel" =>
          /\ Len(procs) = last.n
          /\ Len(urls) = last.nurl
          /\ location = last.loc
          /\ classes = last.cl
    /\ last.op = "change" =>
          /\ last.len = 1
          /\ Len(procs) = last.n + 1
          /\ procs[Len(procs)].file = last.file
          /\ procs[Len(procs)].pc = "read"

C10_Witness ==
    /\ last.op = "cancel"
    /\ last.n = 1
    /\ Len(procs) = 1
    /\ chooser = "closed"

\* C11: when the file read or the render fails inside a process invocation,
\* the failure is not caught: that invocation ends without an object URL and
\* never takes another step, so it never navigates; the step leaves the
\* decoration, the URL store and the page location as they were and leaves
\* every other invocation untouched.
C11_FailureIsUncaught ==
    [][/\ last'.op \in {"readfail", "renderfail"} =>
            /\ last'.p \in DOMAIN procs
            /\ procs[last'.p].pc \in {"read", "render"}
            /\ procs'[last'.p].pc = "failed"
            /\ procs'[last'.p].url = NoUrl
            /\ DOMAIN procs' = DOMAIN procs
            /\ \A q \in DOMAIN procs \ {last'.p} : procs'[q] = procs[q]
            /\ classes' = classes
            /\ urls' = urls
            /\ location' = location
       /\ \A p \in DOMAIN procs :
            procs[p].pc = "failed" =>
                /\ p \in DOMAIN procs'
                /\ procs'[p] = procs[p]
                /\ procs[p].url = NoUrl]_vars

C11_Witness ==
    /\ last.op = "renderfail"
    /\ Len(procs) = 2
    /\ procs[last.p].pc = "failed"
    /\ procs[last.p].file = "bad.wasm"
    /\ procs[3 - last.p].pc = "render"
    /\ classes = {dropValid}
    /\ location = StartPage

\* C12: the decoration is changed only by the drag-over, drag-leave and drop
\* handlers: after the click handler, the change handler, a dismissed chooser
\* and every continuation of process (read, failed read, navigation, failed
\* render) it is what it was before.
C12_OnlyDragHandlersDecorate ==
    last.op \in {"click", "change", "cancel", "read", "readfail",
                 "navigate", "renderfail"} =>
        classes = last.cl

C12_Witness ==
    /\ last.op = "navigate"
    /\ last.cl = {dropInvalid}
    /\ classes = {dropInvalid}
    /\ location = procs[last.p].url

\* C13: object URLs are never revoked: in every step each issued URL stays in
\* the store with its blob, and the store grows by exactly one URL in the step
\* that finishes a pipeline and in no other step.
C13_UrlsNeverRevoked ==
    [][/\ Len(urls') >= Len(urls)
       /\ Len(urls') <= Len(urls) + 1
       /\ \A u \in 1..Len(urls) : urls'[u] = urls[u]
       /\ Len(urls') - Len(urls) = Cardinality(Done') - Cardinality(Done)]_vars

C13_Witness ==
    /\ last.op = "navigate"
    /\ Len(urls) = 2
    /\ location = 2
    /\ procs[3 - last.p].url = 1
    /\ urls[1] = Flamegraph("ok.wasm")

\* The position of the first call of f among the calls of the last handler,
\* 0 when it made none.
CallAt(f) ==
    IF \E i \in 1..Len(last.calls) : last.calls[i] = f
      THEN CHOOSE i \in 1..Len(last.calls) :
               /\ last.calls[i] = f
               /\ \A j \in 1..(i - 1) : last.calls[j] # f
      ELSE 0

\* C14: every drag-over and every drop prevents the default behaviour of its
\* event, for valid and invalid payloads alike, and does so before it
\* validates the payload; a drag-leave does not prevent the default.
C14_DefaultPrevented ==
    /\ last.op \in {"dragover", "drop"} =>
          /\ CallAt("preventDefault") = 1
          /\ CallAt("isValidWasmDrop") > CallAt("preventDefault")
    /\ last.op = "dragleave" => CallAt("preventDefault") = 0

C14_Witness ==
    /\ last.op = "dragover"
    /\ ~Satisfies(last)
    /\ last.len = 2
    /\ CallAt("preventDefault") = 1
    /\ CallAt("isValidWasmDrop") = 2

\* C15: a handler runs as one step.  The step of a valid drop both leaves the
\* decoration Neutral and adds the new pipeline at its first suspension point,
\* with the reset called before process and every other pipeline, the URL
\* store and the location untouched by that step; a file-chooser change adds
\* its pipeline the same way and leaves the decoration alone.  From Neutral,
\* only a drag-over changes the decoration, so it is still Neutral when the
\* first continuation of the pipeline runs unless a drag-over ran in between.
C15_HandlersAreAtomic ==
    [][/\ (last'.op = "drop" /\ Satisfies(last')) =>
            /\ classes' = {}
            /\ Len(procs') = Len(procs) + 1
            /\ procs'[Len(procs')].pc = "read"
            /\ procs'[Len(procs')].file = last'.file
            /\ \A q \in DOMAIN procs : procs'[q] = procs[q]
            /\ urls' = urls /\ location' = location
            /\ last'.calls = <<"preventDefault", "resetDropSignal",
                               "isValidWasmDrop", "process">>
       /\ last'.op = "change" =>
            /\ classes' = classes
            /\ Len(procs') = Len(procs) + 1
            /\ procs'[Len(procs')].pc = "read"
            /\ \A q \in DOMAIN procs : procs'[q] = procs[q]
            /\ urls' = urls /\ location' = location
       /\ last'.op \in {"dragover", "dragleave"} =>
            /\ procs' = procs /\ urls' = urls /\ location' = location
       /\ (classes = {} /\ last'.op # "dragover") => classes' = {}]_vars

C15_Witness ==
    /\ last.op = "drop"
    /\ Satisfies(last)
    /\ classes = {}
    /\ Len(procs) = 2
    /\ procs[1].pc = "render"
    /\ procs[2].pc = "read"
    /\ procs[2].file = last.file

\* A handler that invokes process: a drop with a valid payload, or a change.
Invokes(r) == r.op = "change" \/ (r.op = "drop" /\ Satisfies(r))

\* C16: the location changes only in the step that finishes a pipeline, and
\* that step is the only one that finishes a pipeline; the number of process
\* invocations grows by one in every valid drop and every change and in no
\* other step, so it always equals the number of valid drops plus changes and
\* is never below the number of navigations; a drag-over, a drag-leave and
\* an invalid drop neither invoke process nor navigate.
C16_NavigationOnlyByPipeline ==
    [][/\ (location' # location \/ Done' # Done) =>
            /\ last'.op = "navigate"
            /\ procs[last'.p].pc = "render"
            /\ procs'[last'.p].pc = "done"
            /\ Done' = Done \cup {last'.p}
            /\ location' = procs'[last'.p].url
            /\ location' # location
       /\ Len(procs') # Len(procs) <=> Invokes(last')
       /\ Invokes(last') => Len(procs') = Len(procs) + 1
       /\ (last'.op \in {"dragover", "dragleave", "drop"} /\ ~Invokes(last')) =>
            /\ procs' = procs /\ location' = location
       /\ Cardinality(Done') <= Len(procs')]_vars

C16_Witness ==
    /\ last.op = "navigate"
    /\ Len(procs) = 2
    /\ Done = {last.p}
    /\ location = procs[last.p].url
    /\ procs[3 - last.p].pc = "read"
    /\ chooser = "open"

\* C17: no state is terminal or stuck.  In every reachable state, whatever
\* the pipelines in flight, a drag-leave, a drag-over of any payload and a
\* drop of any invalid payload can run, and so can a drop of any valid payload
\* while fewer than MaxProc pipelines were started; the file-select control
\* answers a click while its chooser is closed and fewer than MaxProc
\* pipelines were started, and an open chooser can be dismissed; one
\* drag-leave, or one drop, leaves the decoration Neutral.
C17_NoStuckState ==
    /\ ENABLED ondragleave
    /\ \A dt \in Protected : ENABLED ondragover(dt)
    /\ \A dt \in Payloads :
          (isValidWasmDrop(dt) = null \/ Len(procs) < MaxProc) =>
              /\ ENABLED ondrop(dt)
              /\ ENABLED (ondrop(dt) /\ classes' = {})
    /\ (chooser = "closed" /\ Len(procs) < MaxProc) => ENABLED onclick
    /\ chooser = "open" => ENABLED cancel
    /\ (chooser = "open" /\ Len(procs) < MaxProc) =>
          \A f \in Files : ENABLED onchange(<<f>>)
    /\ ENABLED (ondragleave /\ classes' = {})

C17_Witness ==
    /\ last.op = "dragover"
    /\ classes = {dropValid, dropInvalid}
    /\ Len(procs) = 2
    /\ procs[1].pc = "read"
    /\ procs[2].pc = "render"
    /\ chooser = "closed"

=============================================================================
